---- MODULE Spec2Model ----
(***************************************************************************)
(* A model of the video player controller (python/src/video_player.py)     *)
(* and of its Playlist entity (python/src/video_playlist.py).              *)
(*                                                                         *)
(* Text (playlist names) is a sequence of character codes, so that         *)
(* str.lower() and the ordering of strings are computed, not assumed.      *)
(* A Video object is represented by its video_id: the library is           *)
(* immutable, and every attribute of a video is a function of its id.      *)
(* Every method is an operator from the controller's state (a record of    *)
(* its fields plus the lines printed so far) to the state it leaves; an    *)
(* action is one top-level call of a method.                               *)
(***************************************************************************)
EXTENDS Integers, Sequences, FiniteSets, TLC

\* The number of playlists the model lets exist at once.
MaxPlaylists == 2

\* The largest number typed at the prompt that follows a search.
MaxChoose == 3

\* Python's None.
None == "None"

\* The fields of the VideoPlayer, the command that runs (call) and the lines
\* it printed (out).
VARIABLES video_library, status, playing_video, play_lists, flags, call, out

vars == <<video_library, status, playing_video, play_lists, flags, call, out>>

\* ---------------------------------------------------------------------
\* The video library (video_library.py and video.py are not part of the
\* sources at hand: the catalog is the one of the specification's scenario).
\* ---------------------------------------------------------------------
\* "Bob" (v2) tagged "drama", "Amy" (v1) tagged "fun"; ids as text are
\* "v2" and "v1".
Videos ==
    << [video_id |-> "v2", id_text |-> <<118, 50>>, title |-> <<66, 111, 98>>,
        tags |-> << <<100, 114, 97, 109, 97>> >>],
       [video_id |-> "v1", id_text |-> <<118, 49>>, title |-> <<65, 109, 121>>,
        tags |-> << <<102, 117, 110>> >>] >>

\* The same catalog with a third video, "Cat" (v3) tagged "fun".
Videos3 ==
    Videos \o << [video_id |-> "v3", id_text |-> <<118, 51>>, title |-> <<67, 97, 116>>,
                  tags |-> << <<102, 117, 110>> >>] >>

get_all_videos == [i \in 1..Len(video_library) |-> video_library[i].video_id]

VideoIds == {get_all_videos[i] : i \in 1..Len(get_all_videos)}

get_video(video_id) == IF video_id \in VideoIds THEN video_id ELSE None

\* The record of a video of the catalog.
VideoOf(video_id) ==
    video_library[CHOOSE i \in 1..Len(video_library) : video_library[i].video_id = video_id]

RECURSIVE join(_, _)
join(sep, parts) ==
    IF parts = <<>> THEN <<>>
    ELSE IF Len(parts) = 1 THEN parts[1]
    ELSE parts[1] \o sep \o join(sep, Tail(parts))

\* str(video): title (video_id) [tags]
str(video) ==
    LET v == VideoOf(video) IN
    v.title \o <<32, 40>> \o v.id_text \o <<41, 32, 91>> \o join(<<32>>, v.tags) \o <<93>>

\* ---------------------------------------------------------------------
\* The inputs the commands are called with.
\* ---------------------------------------------------------------------
\* Video ids: the catalog's and one the catalog does not know.
Ids == VideoIds \cup {"v9"}

\* Playlist names: "a", "B", "b", "C".
Names == {<<97>>, <<66>>, <<98>>, <<67>>}

\* Search terms: "a", "FUN", "zz".
Terms == {<<97>>, <<70, 85, 78>>, <<122, 122>>}

\* The decimal text of a natural number.
RECURSIVE DecimalText(_)
DecimalText(n) ==
    IF n < 10 THEN <<48 + n>> ELSE Append(DecimalText(n \div 10), 48 + (n % 10))

\* Lines typed at the prompt: nothing, "x", the superscript two, and the
\* numbers from 0 to MaxChoose.
Inputs == {<<>>, <<120>>, <<178>>} \cup {DecimalText(n) : n \in 0..MaxChoose}

\* Flag reasons; the first is flag_video's default.
Reasons == {"Not supplied", "spam"}

\* ---------------------------------------------------------------------
\* Helpers
\* ---------------------------------------------------------------------
lower(s) == [i \in 1..Len(s) |-> IF s[i] \in 65..90 THEN s[i] + 32 ELSE s[i]]

Range(s) == {s[i] : i \in 1..Len(s)}

\* OrderedDict: list[video_id] = video
DictSet(list, video_id) ==
    IF video_id \in Range(list) THEN list ELSE Append(list, video_id)

\* OrderedDict: del list[video_id]
DictDel(list, video_id) == SelectSeq(list, LAMBDA x : x # video_id)

\* dict: del d[key]
DelKey(d, key) == [k \in (DOMAIN d) \ {key} |-> d[k]]

\* class Playlist
Playlist(name) == [name |-> name, list |-> <<>>]

\* One printed line: what it reports, about which video, with which
\* reason, for which playlist name.
Msg(kind, video, reason, name) ==
    [kind |-> kind, video |-> video, reason |-> reason, name |-> name]

print(s, m) == [s EXCEPT !.out = Append(@, m)]

\* The controller's fields, with nothing printed yet.
Self ==
    [status |-> status, playing_video |-> playing_video,
     play_lists |-> play_lists, flags |-> flags, out |-> <<>>]

\* ---------------------------------------------------------------------
\* Playback
\* ---------------------------------------------------------------------
\* stop_video, leaving the video that was playing in place.
stop_video_keeps_video(s) ==
    IF s.status \in {"PLAYING", "PAUSED"}
    THEN [print(s, Msg("Stopping", s.playing_video, "", <<>>)) EXCEPT !.status = "STOPPED"]
    ELSE print(s, Msg("NoActiveVideo", None, "", <<>>))

\* stop_video stopping a video that plays, not one that is paused.
stop_video_playing_only(s) ==
    IF s.status = "PLAYING"
    THEN [print(s, Msg("Stopping", s.playing_video, "", <<>>))
            EXCEPT !.status = "STOPPED", !.playing_video = None]
    ELSE print(s, Msg("NoActiveVideo", None, "", <<>>))

stop_video(s) ==
    IF s.status \in {"PLAYING", "PAUSED"}
    THEN [print(s, Msg("Stopping", s.playing_video, "", <<>>))
            EXCEPT !.status = "STOPPED", !.playing_video = None]
    ELSE print(s, Msg("NoActiveVideo", None, "", <<>>))

\* play_video stopping the current video only while it plays, not while it
\* is paused.
play_video_keeps_paused(s, video_id) ==
    LET video == get_video(video_id) IN
    IF video = None
    THEN print(s, Msg("VideoNotFound", None, "", <<>>))
    ELSE IF video_id \in DOMAIN s.flags
    THEN print(s, Msg("Flagged", None, s.flags[video_id], <<>>))
    ELSE LET s1 == IF s.status = "PLAYING" THEN stop_video(s) ELSE s
             s2 == [s1 EXCEPT !.playing_video = video, !.status = "PLAYING"]
         IN print(s2, Msg("Playing", s2.playing_video, "", <<>>))

\* play_video without the check of the flags.
play_video_unchecked(s, video_id) ==
    LET video == get_video(video_id) IN
    IF video = None
    THEN print(s, Msg("VideoNotFound", None, "", <<>>))
    ELSE LET s1 == IF s.status \in {"PLAYING", "PAUSED"} THEN stop_video(s) ELSE s
             s2 == [s1 EXCEPT !.playing_video = video, !.status = "PLAYING"]
         IN print(s2, Msg("Playing", s2.playing_video, "", <<>>))

\* play_video stopping the current video before it checks the flags.
play_video_stops_first(s, video_id) ==
    LET video == get_video(video_id)
        s1 == IF s.status \in {"PLAYING", "PAUSED"} THEN stop_video(s) ELSE s
    IN
    IF video = None
    THEN print(s, Msg("VideoNotFound", None, "", <<>>))
    ELSE IF video_id \in DOMAIN s.flags
    THEN print(s1, Msg("Flagged", None, s.flags[video_id], <<>>))
    ELSE LET s2 == [s1 EXCEPT !.playing_video = video, !.status = "PLAYING"]
         IN print(s2, Msg("Playing", s2.playing_video, "", <<>>))

play_video(s, video_id) ==
    LET video == get_video(video_id) IN
    IF video = None
    THEN print(s, Msg("VideoNotFound", None, "", <<>>))
    ELSE IF video_id \in DOMAIN s.flags
    THEN print(s, Msg("Flagged", None, s.flags[video_id], <<>>))
    ELSE LET s1 == IF s.status \in {"PLAYING", "PAUSED"} THEN stop_video(s) ELSE s
             s2 == [s1 EXCEPT !.playing_video = video, !.status = "PLAYING"]
         IN print(s2, Msg("Playing", s2.playing_video, "", <<>>))

\* The candidates of play_random_video, the flagged videos among them.
RandomCandidates_all(s) == get_all_videos

\* The videos play_random_video chooses among.
RandomCandidates(s) ==
    SelectSeq(get_all_videos, LAMBDA v : v \notin DOMAIN s.flags)

\* r is the value randint(0, len(videos) - 1) returns.
play_random_video(s, r) ==
    LET videos == RandomCandidates(s) IN
    IF Len(videos) > 0
    THEN play_video(s, videos[r + 1])
    ELSE print(s, Msg("NoVideosAvailable", None, "", <<>>))

\* pause_video resuming a video that is paused.
pause_video_toggles(s) ==
    IF s.status = "STOPPED"
    THEN print(s, Msg("NoActiveVideo", None, "", <<>>))
    ELSE IF s.status = "PAUSED"
    THEN print([s EXCEPT !.status = "PLAYING"],
               Msg("AlreadyPaused", s.playing_video, "", <<>>))
    ELSE print([s EXCEPT !.status = "PAUSED"],
               Msg("Pausing", s.playing_video, "", <<>>))

pause_video(s) ==
    IF s.status = "STOPPED"
    THEN print(s, Msg("NoActiveVideo", None, "", <<>>))
    ELSE IF s.status = "PAUSED"
    THEN print(s, Msg("AlreadyPaused", s.playing_video, "", <<>>))
    ELSE print([s EXCEPT !.status = "PAUSED"],
               Msg("Pausing", s.playing_video, "", <<>>))

continue_video(s) ==
    IF s.status = "STOPPED"
    THEN print(s, Msg("NoActiveVideo", None, "", <<>>))
    ELSE IF s.status = "PLAYING"
    THEN print(s, Msg("NotPaused", None, "", <<>>))
    ELSE print([s EXCEPT !.status = "PLAYING"],
               Msg("Continuing", s.playing_video, "", <<>>))

show_playing(s) ==
    IF "STOPPED" = s.status
    THEN print(s, Msg("NoActiveVideo", None, "", <<>>))
    ELSE print(s, Msg("CurrentlyPlaying", s.playing_video, s.status, <<>>))

\* ---------------------------------------------------------------------
\* Playlists
\* ---------------------------------------------------------------------
\* create_playlist keyed by the name as given, not by its lowercase.
create_playlist_case_sensitive(s, playlist_name) ==
    IF playlist_name \in DOMAIN s.play_lists
    THEN print(s, Msg("AlreadyExists", None, "", playlist_name))
    ELSE print([s EXCEPT !.play_lists = (playlist_name :> Playlist(playlist_name)) @@ @],
               Msg("Created", None, "", playlist_name))

create_playlist(s, playlist_name) ==
    IF lower(playlist_name) \in DOMAIN s.play_lists
    THEN print(s, Msg("AlreadyExists", None, "", playlist_name))
    ELSE print([s EXCEPT !.play_lists = (lower(playlist_name) :> Playlist(playlist_name)) @@ @],
               Msg("Created", None, "", playlist_name))

\* add_to_playlist without the check that the video is a member already.
add_to_playlist_readds(s, playlist_name, video_id) ==
    LET video == get_video(video_id)
        key == lower(playlist_name)
    IN
    IF key \notin DOMAIN s.play_lists
    THEN print(s, Msg("PlaylistNotFound", None, "", playlist_name))
    ELSE IF video = None
    THEN print(s, Msg("VideoNotFound", None, "", playlist_name))
    ELSE IF video_id \in DOMAIN s.flags
    THEN print(s, Msg("Flagged", None, s.flags[video_id], playlist_name))
    ELSE print([s EXCEPT !.play_lists[key].list = Append(@, video_id)],
               Msg("Added", video, "", playlist_name))

\* add_to_playlist checking the flag before the membership.
add_to_playlist_flag_first(s, playlist_name, video_id) ==
    LET video == get_video(video_id)
        key == lower(playlist_name)
    IN
    IF key \notin DOMAIN s.play_lists
    THEN print(s, Msg("PlaylistNotFound", None, "", playlist_name))
    ELSE IF video = None
    THEN print(s, Msg("VideoNotFound", None, "", playlist_name))
    ELSE IF video_id \in DOMAIN s.flags
    THEN print(s, Msg("Flagged", None, s.flags[video_id], playlist_name))
    ELSE IF video_id \in Range(s.play_lists[key].list)
    THEN print(s, Msg("AlreadyInPlaylist", None, "", playlist_name))
    ELSE print([s EXCEPT !.play_lists[key].list = DictSet(@, video_id)],
               Msg("Added", video, "", playlist_name))

add_to_playlist(s, playlist_name, video_id) ==
    LET video == get_video(video_id)
        key == lower(playlist_name)
    IN
    IF key \notin DOMAIN s.play_lists
    THEN print(s, Msg("PlaylistNotFound", None, "", playlist_name))
    ELSE IF video = None
    THEN print(s, Msg("VideoNotFound", None, "", playlist_name))
    ELSE IF video_id \in Range(s.play_lists[key].list)
    THEN print(s, Msg("AlreadyInPlaylist", None, "", playlist_name))
    ELSE IF video_id \in DOMAIN s.flags
    THEN print(s, Msg("Flagged", None, s.flags[video_id], playlist_name))
    ELSE print([s EXCEPT !.play_lists[key].list = DictSet(@, video_id)],
               Msg("Added", video, "", playlist_name))

\* Python's order of strings: by character code, a proper prefix first.
StrLess(a, b) ==
    \E i \in 1..(Len(a) + 1) :
        /\ i <= Len(b)
        /\ \A j \in 1..(i - 1) : a[j] = b[j]
        /\ i = Len(a) + 1 \/ a[i] < b[i]

\* sorted() of a collection of distinct strings.
RECURSIVE sorted(_)
sorted(S) ==
    IF S = {} THEN <<>>
    ELSE LET m == CHOOSE x \in S : \A y \in S \ {x} : StrLess(x, y)
         IN <<m>> \o sorted(S \ {m})

\* Prints one line per element of lines.
print_all(s, lines) == [s EXCEPT !.out = @ \o lines]

show_all_playlists(s) ==
    IF Cardinality(DOMAIN s.play_lists) = 0
    THEN print(s, Msg("NoPlaylists", None, "", <<>>))
    ELSE LET playlist_names == sorted({s.play_lists[k].name : k \in DOMAIN s.play_lists})
         IN print_all(print(s, Msg("ShowingAllPlaylists", None, "", <<>>)),
                      [i \in 1..Len(playlist_names) |->
                          Msg("PlaylistName", None, "", playlist_names[i])])

\* The line a listing prints for a video: flagged videos are annotated.
VideoLine(s, video) ==
    IF video \in DOMAIN s.flags
    THEN Msg("VideoFlagged", video, s.flags[video], <<>>)
    ELSE Msg("Video", video, "", <<>>)

show_playlist(s, playlist_name) ==
    IF lower(playlist_name) \notin DOMAIN s.play_lists
    THEN print(s, Msg("PlaylistNotFound", None, "", playlist_name))
    ELSE LET videos == s.play_lists[lower(playlist_name)].list
             s1 == print_all(print(s, Msg("ShowingPlaylist", None, "", playlist_name)),
                             [i \in 1..Len(videos) |-> VideoLine(s, videos[i])])
         IN IF Len(videos) = 0
            THEN print(s1, Msg("EmptyPlaylist", None, "", <<>>))
            ELSE s1

\* The members with the last one moved to the place of video_id.
SwapRemove(list, video_id) ==
    LET p == CHOOSE i \in 1..Len(list) : list[i] = video_id IN
    [i \in 1..(Len(list) - 1) |-> IF i = p THEN list[Len(list)] ELSE list[i]]

\* remove_from_playlist filling the place of the removed video with the last
\* member.
remove_from_playlist_swaps(s, playlist_name, video_id) ==
    LET video == get_video(video_id)
        key == lower(playlist_name)
    IN
    IF key \notin DOMAIN s.play_lists
    THEN print(s, Msg("PlaylistNotFound", None, "", playlist_name))
    ELSE IF video = None
    THEN print(s, Msg("VideoNotFound", None, "", playlist_name))
    ELSE IF video_id \notin Range(s.play_lists[key].list)
    THEN print(s, Msg("NotInPlaylist", None, "", playlist_name))
    ELSE print([s EXCEPT !.play_lists[key].list = SwapRemove(@, video_id)],
               Msg("Removed", video_id, "", playlist_name))

\* remove_from_playlist dropping the playlist that its removal empties.
remove_from_playlist_drops_empty(s, playlist_name, video_id) ==
    LET video == get_video(video_id)
        key == lower(playlist_name)
    IN
    IF key \notin DOMAIN s.play_lists
    THEN print(s, Msg("PlaylistNotFound", None, "", playlist_name))
    ELSE IF video = None
    THEN print(s, Msg("VideoNotFound", None, "", playlist_name))
    ELSE IF video_id \notin Range(s.play_lists[key].list)
    THEN print(s, Msg("NotInPlaylist", None, "", playlist_name))
    ELSE IF Len(s.play_lists[key].list) = 1
    THEN print([s EXCEPT !.play_lists = DelKey(@, key)],
               Msg("Removed", video_id, "", playlist_name))
    ELSE print([s EXCEPT !.play_lists[key].list = DictDel(@, video_id)],
               Msg("Removed", video_id, "", playlist_name))

remove_from_playlist(s, playlist_name, video_id) ==
    LET video == get_video(video_id)
        key == lower(playlist_name)
    IN
    IF key \notin DOMAIN s.play_lists
    THEN print(s, Msg("PlaylistNotFound", None, "", playlist_name))
    ELSE IF video = None
    THEN print(s, Msg("VideoNotFound", None, "", playlist_name))
    ELSE IF video_id \notin Range(s.play_lists[key].list)
    THEN print(s, Msg("NotInPlaylist", None, "", playlist_name))
    ELSE print([s EXCEPT !.play_lists[key].list = DictDel(@, video_id)],
               Msg("Removed", video_id, "", playlist_name))

clear_playlist(s, playlist_name) ==
    IF lower(playlist_name) \notin DOMAIN s.play_lists
    THEN print(s, Msg("PlaylistNotFound", None, "", playlist_name))
    ELSE print([s EXCEPT !.play_lists[lower(playlist_name)].list = <<>>],
               Msg("Cleared", None, "", playlist_name))

\* delete_playlist emptying the registry.
delete_playlist_all(s, playlist_name) ==
    IF lower(playlist_name) \notin DOMAIN s.play_lists
    THEN print(s, Msg("PlaylistNotFound", None, "", playlist_name))
    ELSE print([s EXCEPT !.play_lists = <<>>],
               Msg("Deleted", None, "", playlist_name))

delete_playlist(s, playlist_name) ==
    IF lower(playlist_name) \notin DOMAIN s.play_lists
    THEN print(s, Msg("PlaylistNotFound", None, "", playlist_name))
    ELSE print([s EXCEPT !.play_lists = DelKey(@, lower(playlist_name))],
               Msg("Deleted", None, "", playlist_name))

\* ---------------------------------------------------------------------
\* Listing and search
\* ---------------------------------------------------------------------
\* a <= b in Python's order of strings.
StrLeq(a, b) == a = b \/ StrLess(a, b)

\* The key the listings sort by: x.title.lower()
TitleKey(video) == lower(VideoOf(video).title)

\* list.insert keeping the order of the keys; equal keys keep their order
\* (sorted() is stable).
RECURSIVE InsertByTitle(_, _)
InsertByTitle(sortedSeq, video) ==
    IF sortedSeq = <<>> THEN <<video>>
    ELSE IF StrLeq(TitleKey(Head(sortedSeq)), TitleKey(video))
    THEN <<Head(sortedSeq)>> \o InsertByTitle(Tail(sortedSeq), video)
    ELSE <<video>> \o sortedSeq

\* sorted(videos, key=lambda x: x.title.lower())
RECURSIVE sorted_by_title(_)
sorted_by_title(videos) ==
    IF videos = <<>> THEN <<>>
    ELSE InsertByTitle(sorted_by_title(SubSeq(videos, 1, Len(videos) - 1)),
                       videos[Len(videos)])

\* The catalog, sorted as the listing and the search sort it.
videos_by_title == sorted_by_title(get_all_videos)

show_all_videos(s) ==
    LET videos == videos_by_title IN
    print_all(print(s, Msg("AllVideos", None, "", <<>>)),
              [i \in 1..Len(videos) |-> VideoLine(s, videos[i])])

\* t in s, for strings
Contains(t, s) ==
    \E i \in 0..(Len(s) - Len(t)) : SubSeq(s, i + 1, i + Len(t)) = t

\* str.isdigit(): not empty, and every character a digit; the superscript
\* digits count as digits.
isdigit(text) ==
    /\ Len(text) > 0
    /\ \A i \in 1..Len(text) : text[i] \in (48..57) \cup {178, 179, 185}

\* Whether int(text) returns, for a text that isdigit(): the superscript
\* digits are no decimal digits, and int raises ValueError on them.
IntParses(text) == \A i \in 1..Len(text) : text[i] \in 48..57

\* int(text), for a text of decimal digits.
RECURSIVE int(_)
int(text) ==
    IF text = <<>> THEN 0
    ELSE 10 * int(SubSeq(text, 1, Len(text) - 1)) + (text[Len(text)] - 48)

\* Matches, a tag matching when the term is a part of it.
Matches_tag_substring(s, video, search_term, search_mode) ==
    \/ /\ "all" = search_mode
       /\ Contains(lower(search_term), lower(str(video)))
       /\ video \notin DOMAIN s.flags
    \/ /\ "tag" = search_mode
       /\ \E tag \in Range(VideoOf(video).tags) : Contains(lower(search_term), lower(tag))
       /\ video \notin DOMAIN s.flags

\* Whether the search includes the video.
Matches(s, video, search_term, search_mode) ==
    \/ /\ "all" = search_mode
       /\ Contains(lower(search_term), lower(str(video)))
       /\ video \notin DOMAIN s.flags
    \/ /\ "tag" = search_mode
       /\ lower(search_term) \in {lower(tag) : tag \in Range(VideoOf(video).tags)}
       /\ video \notin DOMAIN s.flags

SearchResults(s, search_term, search_mode) ==
    SelectSeq(videos_by_title,
              LAMBDA video : Matches(s, video, search_term, search_mode))

\* choose is the line input() returns; it is read only when there are results.
\* An exception int() raises is not caught: the line "ValueError" stands for it.
search_video(s, search_term, search_mode, choose) ==
    LET results == SearchResults(s, search_term, search_mode) IN
    IF Len(results) = 0
    THEN print(s, Msg("NoResults", None, "", search_term))
    ELSE LET s1 == print_all(print(s, Msg("ResultsFor", None, "", search_term)),
                             [i \in 1..Len(results) |-> Msg("Result", results[i], "", <<i>>)])
             s2 == print(print(s1, Msg("PromptPlay", None, "", <<>>)),
                         Msg("PromptNote", None, "", <<>>))
         IN IF ~isdigit(choose) THEN s2
            ELSE IF ~IntParses(choose) THEN print(s2, Msg("ValueError", None, "", choose))
            ELSE IF 0 < int(choose) /\ int(choose) <= Len(results)
            THEN play_video(s2, results[int(choose)])
            ELSE s2

search_videos(s, search_term, choose) == search_video(s, search_term, "all", choose)

search_videos_tag(s, video_tag, choose) == search_video(s, video_tag, "tag", choose)

\* ---------------------------------------------------------------------
\* Flags
\* ---------------------------------------------------------------------
\* flag_video without the check that the video exists.
flag_video_any_id(s, video_id, flag_reason) ==
    IF video_id \in DOMAIN s.flags
    THEN print(s, Msg("AlreadyFlagged", None, "", <<>>))
    ELSE LET s1 == [s EXCEPT !.flags = (video_id :> flag_reason) @@ @]
             s2 == IF s1.playing_video # None /\ s1.playing_video = video_id
                   THEN stop_video(s1) ELSE s1
         IN print(s2, Msg("FlaggedOk", video_id, flag_reason, <<>>))

\* flag_video stopping the flagged video only while it plays, not while it
\* is paused.
flag_video_stops_playing_only(s, video_id, flag_reason) ==
    LET video == get_video(video_id) IN
    IF video = None
    THEN print(s, Msg("VideoNotFound", None, "", <<>>))
    ELSE IF video_id \in DOMAIN s.flags
    THEN print(s, Msg("AlreadyFlagged", None, "", <<>>))
    ELSE LET s1 == [s EXCEPT !.flags = (video_id :> flag_reason) @@ @]
             s2 == IF s1.status = "PLAYING" /\ s1.playing_video = video_id
                   THEN stop_video(s1) ELSE s1
         IN print(s2, Msg("FlaggedOk", video, flag_reason, <<>>))

\* flag_video recording the new reason for a video that is flagged already.
flag_video_overwrites(s, video_id, flag_reason) ==
    LET video == get_video(video_id) IN
    IF video = None
    THEN print(s, Msg("VideoNotFound", None, "", <<>>))
    ELSE IF video_id \in DOMAIN s.flags
    THEN print([s EXCEPT !.flags[video_id] = flag_reason],
               Msg("AlreadyFlagged", None, "", <<>>))
    ELSE LET s1 == [s EXCEPT !.flags = (video_id :> flag_reason) @@ @]
             s2 == IF s1.playing_video # None /\ s1.playing_video = video_id
                   THEN stop_video(s1) ELSE s1
         IN print(s2, Msg("FlaggedOk", video, flag_reason, <<>>))

\* flag_video taking the flagged video out of every playlist.
flag_video_purges(s, video_id, flag_reason) ==
    LET video == get_video(video_id) IN
    IF video = None
    THEN print(s, Msg("VideoNotFound", None, "", <<>>))
    ELSE IF video_id \in DOMAIN s.flags
    THEN print(s, Msg("AlreadyFlagged", None, "", <<>>))
    ELSE LET s1 == [s EXCEPT !.flags = (video_id :> flag_reason) @@ @,
                             !.play_lists = [k \in DOMAIN @ |->
                                 [@[k] EXCEPT !.list =
                                     SelectSeq(@, LAMBDA v : v # video_id)]]]
             s2 == IF s1.playing_video # None /\ s1.playing_video = video_id
                   THEN stop_video(s1) ELSE s1
         IN print(s2, Msg("FlaggedOk", video, flag_reason, <<>>))

flag_video(s, video_id, flag_reason) ==
    LET video == get_video(video_id) IN
    IF video = None
    THEN print(s, Msg("VideoNotFound", None, "", <<>>))
    ELSE IF video_id \in DOMAIN s.flags
    THEN print(s, Msg("AlreadyFlagged", None, "", <<>>))
    ELSE LET s1 == [s EXCEPT !.flags = (video_id :> flag_reason) @@ @]
             s2 == IF s1.playing_video # None /\ s1.playing_video = video_id
                   THEN stop_video(s1) ELSE s1
         IN print(s2, Msg("FlaggedOk", video, flag_reason, <<>>))

allow_video(s, video_id) ==
    LET video == get_video(video_id) IN
    IF video = None
    THEN print(s, Msg("VideoNotFound", None, "", <<>>))
    ELSE IF video_id \notin DOMAIN s.flags
    THEN print(s, Msg("NotFlagged", None, "", <<>>))
    ELSE print([s EXCEPT !.flags = DelKey(@, video_id)],
               Msg("Allowed", video, "", <<>>))

\* ---------------------------------------------------------------------
\* The state machine
\* ---------------------------------------------------------------------
\* The command a step runs: the method, and its arguments (a playlist name
\* or a search term, a video id, a flag reason, the line typed at the prompt).
Call(op, name, video_id, reason) ==
    [op |-> op, name |-> name, video_id |-> video_id, reason |-> reason, input |-> <<>>]

SearchCall(op, search_term, choose) ==
    [op |-> op, name |-> search_term, video_id |-> None, reason |-> "", input |-> choose]

\* The values randint(0, len(videos) - 1) can return in play_random_video:
\* it is not called without candidates.
RandInts(s) ==
    IF Len(RandomCandidates(s)) = 0 THEN {0} ELSE 0..(Len(RandomCandidates(s)) - 1)

\* The lines input() can return in a search: none is read without results.
InputsOf(s, search_term, search_mode) ==
    IF Len(SearchResults(s, search_term, search_mode)) = 0 THEN {<<>>} ELSE Inputs

\* No command is running: the next one can be accepted.
Idle == Call("idle", <<>>, None, "")

\* Command c, accepted when no other is running, runs to completion: the
\* fields and the printed lines take the values it left.
Becomes(result, c) ==
    \E s \in {result} :
        /\ status' = s.status
        /\ playing_video' = s.playing_video
        /\ play_lists' = s.play_lists
        /\ flags' = s.flags
        /\ out' = s.out
        /\ call' = c
        /\ video_library' = video_library

Init ==
    /\ video_library = Videos
    /\ status = "STOPPED"
    /\ playing_video = None
    /\ play_lists = <<>>
    /\ flags = <<>>
    /\ call = Idle
    /\ out = <<>>

PlayVideo ==
    /\ call = Idle
    /\ \E id \in Ids : Becomes(play_video(Self, id), Call("play_video", <<>>, id, ""))

StopVideo ==
    /\ call = Idle
    /\ Becomes(stop_video(Self), Call("stop_video", <<>>, None, ""))

PlayRandomVideo ==
    /\ call = Idle
    /\ \E r \in RandInts(Self) :
        Becomes(play_random_video(Self, r), Call("play_random_video", <<>>, None, ""))

PauseVideo ==
    /\ call = Idle
    /\ Becomes(pause_video(Self), Call("pause_video", <<>>, None, ""))

ContinueVideo ==
    /\ call = Idle
    /\ Becomes(continue_video(Self), Call("continue_video", <<>>, None, ""))

ShowPlaying ==
    /\ call = Idle
    /\ Becomes(show_playing(Self), Call("show_playing", <<>>, None, ""))

FlagVideo ==
    /\ call = Idle
    /\ \E id \in Ids, reason \in Reasons :
        Becomes(flag_video(Self, id, reason), Call("flag_video", <<>>, id, reason))

AllowVideo ==
    /\ call = Idle
    /\ \E id \in Ids : Becomes(allow_video(Self, id), Call("allow_video", <<>>, id, ""))

\* A playlist is created only while the model has room for one more.
CreatePlaylist ==
    /\ call = Idle
    /\ \E name \in Names :
        /\ \/ lower(name) \in DOMAIN play_lists
           \/ Cardinality(DOMAIN play_lists) < MaxPlaylists
        /\ Becomes(create_playlist(Self, name), Call("create_playlist", name, None, ""))

AddToPlaylist ==
    /\ call = Idle
    /\ \E name \in Names, id \in Ids :
        Becomes(add_to_playlist(Self, name, id), Call("add_to_playlist", name, id, ""))

ShowAllPlaylists ==
    /\ call = Idle
    /\ Becomes(show_all_playlists(Self), Call("show_all_playlists", <<>>, None, ""))

ShowPlaylist ==
    /\ call = Idle
    /\ \E name \in Names :
        Becomes(show_playlist(Self, name), Call("show_playlist", name, None, ""))

RemoveFromPlaylist ==
    /\ call = Idle
    /\ \E name \in Names, id \in Ids :
        Becomes(remove_from_playlist(Self, name, id),
                Call("remove_from_playlist", name, id, ""))

ClearPlaylist ==
    /\ call = Idle
    /\ \E name \in Names :
        Becomes(clear_playlist(Self, name), Call("clear_playlist", name, None, ""))

DeletePlaylist ==
    /\ call = Idle
    /\ \E name \in Names :
        Becomes(delete_playlist(Self, name), Call("delete_playlist", name, None, ""))

ShowAllVideos ==
    /\ call = Idle
    /\ Becomes(show_all_videos(Self), Call("show_all_videos", <<>>, None, ""))

SearchVideos ==
    /\ call = Idle
    /\ \E term \in Terms :
        \E choose \in InputsOf(Self, term, "all") :
            Becomes(search_videos(Self, term, choose), SearchCall("search_videos", term, choose))

SearchVideosTag ==
    /\ call = Idle
    /\ \E term \in Terms :
        \E choose \in InputsOf(Self, term, "tag") :
            Becomes(search_videos_tag(Self, term, choose),
                    SearchCall("search_videos_tag", term, choose))

\* The command has returned and its lines are shown: the next command is
\* accepted (commands run one at a time, each to completion).
Return ==
    /\ call # Idle
    /\ call' = Idle
    /\ out' = <<>>
    /\ UNCHANGED <<video_library, status, playing_video, play_lists, flags>>

Next ==
    \/ PlayVideo
    \/ StopVideo
    \/ PlayRandomVideo
    \/ PauseVideo
    \/ ContinueVideo
    \/ ShowPlaying
    \/ CreatePlaylist
    \/ AddToPlaylist
    \/ ShowAllPlaylists
    \/ ShowPlaylist
    \/ RemoveFromPlaylist
    \/ ClearPlaylist
    \/ DeletePlaylist
    \/ ShowAllVideos
    \/ SearchVideos
    \/ SearchVideosTag
    \/ Return
    \/ FlagVideo
    \/ AllowVideo

Spec == Init /\ [][Next]_vars

\* The player with a library of three videos, driven by the playlist
\* commands only: playlists of three members, which the library of two
\* cannot fill, at a number of states that can be searched.
Init3 ==
    /\ video_library = Videos3
    /\ status = "STOPPED"
    /\ playing_video = None
    /\ play_lists = <<>>
    /\ flags = <<>>
    /\ call = Idle
    /\ out = <<>>

NextPlaylists ==
    \/ CreatePlaylist
    \/ AddToPlaylist
    \/ ShowPlaylist
    \/ RemoveFromPlaylist
    \/ ClearPlaylist
    \/ DeletePlaylist
    \/ Return

SpecPlaylists == Init3 /\ [][NextPlaylists]_vars

\* ---------------------------------------------------------------------
\* Properties
\* ---------------------------------------------------------------------
\* The kinds of the lines a command printed.
Kinds(lines) == {lines[i].kind : i \in 1..Len(lines)}

\* The step runs command op.
Runs(op) == call = Idle /\ call'.op = op

\* The step runs some command.
RunsCommand == call = Idle /\ call' # Idle

FieldsUnchanged == UNCHANGED <<status, playing_video, play_lists, flags>>

\* The lines that report a failure.
FailureKinds ==
    {"VideoNotFound", "PlaylistNotFound", "AlreadyExists", "AlreadyFlagged",
     "AlreadyInPlaylist", "NotInPlaylist", "NotFlagged", "Flagged", "NoActiveVideo",
     "NotPaused", "NoVideosAvailable", "NoPlaylists", "EmptyPlaylist", "NoResults"}

\* The lines that announce a change of state.
SuccessKinds ==
    {"Playing", "Stopping", "Pausing", "Continuing", "Created", "Added", "Removed",
     "Cleared", "Deleted", "FlaggedOk", "Allowed"}

\* C1: in every reachable state there is a current video if and only if the
\* status is PLAYING or PAUSED; there is none exactly when it is STOPPED.
C1_CurrentIffNotStopped ==
    /\ status \in {"STOPPED", "PLAYING", "PAUSED"}
    /\ (playing_video # None) <=> (status \in {"PLAYING", "PAUSED"})
    /\ (playing_video = None) <=> (status = "STOPPED")

\* Flagging the paused or playing video has stopped it.
C1_Witness ==
    /\ call.op = "flag_video"
    /\ "Stopping" \in Kinds(out)
    /\ status = "STOPPED"
    /\ playing_video = None

\* C2: the current video is never a key of the flag registry, and play_video
\* of a flagged id prints the single line Flagged with the recorded reason and
\* changes no field.
C2_FlaggedNeverPlays ==
    /\ [](playing_video \notin DOMAIN flags)
    /\ [][Runs("play_video") /\ call'.video_id \in DOMAIN flags
            => /\ out' = <<Msg("Flagged", None, flags[call'.video_id], <<>>)>>
               /\ FieldsUnchanged]_vars

\* play_video was refused for a video flagged with the reason "spam", while
\* another video is the current one.
C2_Witness ==
    /\ call.op = "play_video"
    /\ call.video_id \in DOMAIN flags
    /\ out = <<Msg("Flagged", None, "spam", <<>>)>>
    /\ playing_video # None

\* C3: play, add to playlist, remove from playlist, flag and allow, called
\* with an id the catalog does not know, print one line, a NotFound (of the
\* video, or of the playlist when the playlist is unknown too), and change
\* no field.
C3_UnknownIdNotFound ==
    [][/\ RunsCommand
       /\ call'.op \in {"play_video", "add_to_playlist", "remove_from_playlist",
                        "flag_video", "allow_video"}
       /\ call'.video_id \notin VideoIds
       => /\ Len(out') = 1
          /\ out'[1].kind \in {"VideoNotFound", "PlaylistNotFound"}
          /\ (call'.op \in {"play_video", "flag_video", "allow_video"}
                => out'[1].kind = "VideoNotFound")
          /\ (call'.op \in {"add_to_playlist", "remove_from_playlist"}
                /\ lower(call'.name) \in DOMAIN play_lists
                => out'[1].kind = "VideoNotFound")
          /\ FieldsUnchanged]_vars

\* An unknown id was refused for an existing playlist, with a video playing
\* and a video flagged.
C3_Witness ==
    /\ call.op = "add_to_playlist"
    /\ call.video_id \notin VideoIds
    /\ lower(call.name) \in DOMAIN play_lists
    /\ out = <<Msg("VideoNotFound", None, "", call.name)>>
    /\ status = "PLAYING"
    /\ flags # <<>>

\* C4: a command prints at most one failure line; when it prints one it
\* announces no change of state, and status, current video, playlists and
\* flags are what they were before the call.
C4_AllOrNothing ==
    [][RunsCommand
       => /\ Cardinality({i \in 1..Len(out') : out'[i].kind \in FailureKinds}) <= 1
          /\ Len(out') >= 1
          /\ (Kinds(out') \cap FailureKinds # {}
                => /\ Kinds(out') \cap SuccessKinds = {}
                   /\ FieldsUnchanged)]_vars

\* Adding a flagged video to a playlist failed while a video is paused.
C4_Witness ==
    /\ call.op = "add_to_playlist"
    /\ Kinds(out) = {"Flagged"}
    /\ status = "PAUSED"
    /\ play_lists # <<>>

\* C5: flag_video of the current video, playing or paused, succeeds, records
\* the reason and leaves the player STOPPED with no current video; a
\* successful flag_video of another video records the reason and leaves
\* status and current video as they were.
C5_FlagStopsCurrent ==
    [][Runs("flag_video")
       => /\ (playing_video # None /\ call'.video_id = playing_video
                => /\ out' = <<Msg("Stopping", playing_video, "", <<>>),
                               Msg("FlaggedOk", playing_video, call'.reason, <<>>)>>
                   /\ status' = "STOPPED"
                   /\ playing_video' = None)
          /\ ("FlaggedOk" \in Kinds(out')
                => /\ call'.video_id \notin DOMAIN flags
                   /\ flags' = (call'.video_id :> call'.reason) @@ flags
                   /\ play_lists' = play_lists)
          /\ (call'.video_id # playing_video
                => status' = status /\ playing_video' = playing_video)]_vars

\* The current video was flagged with the reason "spam" and stopped.
C5_Witness ==
    /\ call.op = "flag_video"
    /\ out = <<Msg("Stopping", call.video_id, "", <<>>),
               Msg("FlaggedOk", call.video_id, "spam", <<>>)>>
    /\ status = "STOPPED"
    /\ flags[call.video_id] = "spam"

\* C6: play_video of a catalog video that is not flagged ends PLAYING with
\* that video current, whatever the status was; from PLAYING or PAUSED the
\* previous video's stop is announced first, then the play; from STOPPED only
\* the play is announced.
C6_PlayStopsPrevious ==
    [][Runs("play_video") /\ call'.video_id \in VideoIds /\ call'.video_id \notin DOMAIN flags
       => /\ status' = "PLAYING"
          /\ playing_video' = call'.video_id
          /\ (status \in {"PLAYING", "PAUSED"}
                => out' = <<Msg("Stopping", playing_video, "", <<>>),
                            Msg("Playing", call'.video_id, "", <<>>)>>)
          /\ (status = "STOPPED"
                => out' = <<Msg("Playing", call'.video_id, "", <<>>)>>)
          /\ UNCHANGED <<play_lists, flags>>]_vars

\* A video was played while another one was current: the other was stopped.
C6_Witness ==
    /\ call.op = "play_video"
    /\ Len(out) = 2
    /\ out[1].kind = "Stopping"
    /\ out[2].kind = "Playing"
    /\ out[1].video # out[2].video
    /\ status = "PLAYING"
    /\ playing_video = call.video_id

\* C7: stop_video from PLAYING or PAUSED leaves STOPPED with no current
\* video; from STOPPED it reports NoActiveVideo and the player stays STOPPED
\* with no current video. Playlists and flags are unchanged in both cases.
C7_Stop ==
    [][Runs("stop_video")
       => /\ (status \in {"PLAYING", "PAUSED"}
                => out' = <<Msg("Stopping", playing_video, "", <<>>)>>)
          /\ (status = "STOPPED"
                => out' = <<Msg("NoActiveVideo", None, "", <<>>)>>)
          /\ status' = "STOPPED"
          /\ playing_video' = None
          /\ UNCHANGED <<play_lists, flags>>]_vars

\* A video was stopped, with a playlist and a flag in place.
C7_Witness ==
    /\ call.op = "stop_video"
    /\ Kinds(out) = {"Stopping"}
    /\ status = "STOPPED"
    /\ play_lists # <<>>
    /\ flags # <<>>

\* C8: pause_video takes PLAYING to PAUSED, only notes "already paused" in
\* PAUSED and reports NoActiveVideo in STOPPED; continue_video takes PAUSED
\* to PLAYING, reports NotPaused in PLAYING and NoActiveVideo in STOPPED.
\* Neither changes the current video, a playlist or a flag.
C8_PauseContinue ==
    [][/\ Runs("pause_video")
          => /\ (status = "PLAYING"
                   => /\ status' = "PAUSED"
                      /\ out' = <<Msg("Pausing", playing_video, "", <<>>)>>)
             /\ (status = "PAUSED"
                   => /\ status' = "PAUSED"
                      /\ out' = <<Msg("AlreadyPaused", playing_video, "", <<>>)>>)
             /\ (status = "STOPPED"
                   => /\ status' = "STOPPED"
                      /\ out' = <<Msg("NoActiveVideo", None, "", <<>>)>>)
             /\ UNCHANGED <<playing_video, play_lists, flags>>
       /\ Runs("continue_video")
          => /\ (status = "PAUSED"
                   => /\ status' = "PLAYING"
                      /\ out' = <<Msg("Continuing", playing_video, "", <<>>)>>)
             /\ (status = "PLAYING"
                   => /\ status' = "PLAYING"
                      /\ out' = <<Msg("NotPaused", None, "", <<>>)>>)
             /\ (status = "STOPPED"
                   => /\ status' = "STOPPED"
                      /\ out' = <<Msg("NoActiveVideo", None, "", <<>>)>>)
             /\ UNCHANGED <<playing_video, play_lists, flags>>]_vars

\* A paused video was resumed.
C8_Witness ==
    /\ call.op = "continue_video"
    /\ out = <<Msg("Continuing", playing_video, "", <<>>)>>
    /\ status = "PLAYING"

\* C9: play_random_video, whatever number it draws, ends PLAYING with a
\* catalog video that is not flagged as the current one and prints no Flagged
\* line; when every catalog video is flagged it reports NoVideosAvailable and
\* changes no field.
C9_RandomNeverFlagged ==
    [][Runs("play_random_video")
       => /\ (VideoIds \ DOMAIN flags # {}
                => /\ status' = "PLAYING"
                   /\ playing_video' \in VideoIds \ DOMAIN flags'
                   /\ out'[Len(out')] = Msg("Playing", playing_video', "", <<>>)
                   /\ UNCHANGED <<play_lists, flags>>)
          /\ "Flagged" \notin Kinds(out')
          /\ (VideoIds \ DOMAIN flags = {}
                => /\ out' = <<Msg("NoVideosAvailable", None, "", <<>>)>>
                   /\ FieldsUnchanged)]_vars

\* A random video was played while another video is flagged.
C9_Witness ==
    /\ call.op = "play_random_video"
    /\ status = "PLAYING"
    /\ playing_video \in VideoIds
    /\ flags # <<>>

\* The playlist, if any, whose name equals name but for the case of letters.
SameNameKeys(name) ==
    {k \in DOMAIN play_lists : lower(play_lists[k].name) = lower(name)}

\* C10: create_playlist fails with AlreadyExists whenever a playlist exists
\* whose name differs from the given one at most in the case of letters, and
\* then changes nothing; otherwise it adds an empty playlist that keeps the
\* name as given. add, remove, show, clear and delete called with any casing
\* of an existing playlist's name find that playlist and act on it alone.
C10_CaseInsensitiveNames ==
    /\ [](\A k \in DOMAIN play_lists : k = lower(play_lists[k].name))
    /\ [][Runs("create_playlist")
            => IF SameNameKeys(call'.name) # {}
               THEN /\ out' = <<Msg("AlreadyExists", None, "", call'.name)>>
                    /\ FieldsUnchanged
               ELSE /\ out' = <<Msg("Created", None, "", call'.name)>>
                    /\ Cardinality(DOMAIN play_lists') = Cardinality(DOMAIN play_lists) + 1
                    /\ \A k \in DOMAIN play_lists :
                         k \in DOMAIN play_lists' /\ play_lists'[k] = play_lists[k]
                    /\ \E k \in DOMAIN play_lists' \ DOMAIN play_lists :
                         play_lists'[k] = [name |-> call'.name, list |-> <<>>]
                    /\ UNCHANGED <<status, playing_video, flags>>]_vars
    /\ [][/\ RunsCommand
          /\ call'.op \in {"add_to_playlist", "remove_from_playlist", "show_playlist",
                           "clear_playlist", "delete_playlist"}
          /\ SameNameKeys(call'.name) # {}
          => \E key \in SameNameKeys(call'.name) :
               /\ "PlaylistNotFound" \notin Kinds(out')
               /\ \A k \in DOMAIN play_lists \ {key} :
                    k \in DOMAIN play_lists' /\ play_lists'[k] = play_lists[k]
               /\ DOMAIN play_lists' \subseteq DOMAIN play_lists
               /\ ("Added" \in Kinds(out')
                     => play_lists'[key] =
                          [play_lists[key] EXCEPT !.list = Append(@, call'.video_id)])
               /\ ("Removed" \in Kinds(out')
                     => /\ call'.video_id \in Range(play_lists[key].list)
                        /\ call'.video_id \notin Range(play_lists'[key].list)
                        /\ play_lists'[key].name = play_lists[key].name)
               /\ (call'.op = "clear_playlist"
                     => play_lists'[key] = [play_lists[key] EXCEPT !.list = <<>>])
               /\ (call'.op = "delete_playlist" => key \notin DOMAIN play_lists')
               /\ (call'.op = "show_playlist"
                     => /\ play_lists' = play_lists
                        /\ out'[1].kind = "ShowingPlaylist"
                        /\ \A i \in 1..Len(play_lists[key].list) :
                             out'[i + 1].video = play_lists[key].list[i])]_vars

\* A video was added to the playlist created as "B" by the name "b", and
\* the playlist still shows the name "B".
C10_Witness ==
    /\ call.op = "add_to_playlist"
    /\ call.name = <<98>>
    /\ "Added" \in Kinds(out)
    /\ <<98>> \in DOMAIN play_lists
    /\ play_lists[<<98>>].name = <<66>>
    /\ call.video_id \in Range(play_lists[<<98>>].list)

\* C11: add_to_playlist of a video that is a member already reports
\* AlreadyInPlaylist and leaves the members, their number and their order as
\* they were; in every reachable state no playlist holds a video twice and
\* every member is a catalog id.
C11_NoDuplicateMembers ==
    /\ [](\A k \in DOMAIN play_lists :
            /\ Cardinality(Range(play_lists[k].list)) = Len(play_lists[k].list)
            /\ Range(play_lists[k].list) \subseteq VideoIds)
    /\ [][/\ Runs("add_to_playlist")
          /\ lower(call'.name) \in DOMAIN play_lists
          /\ call'.video_id \in Range(play_lists[lower(call'.name)].list)
          => /\ out' = <<Msg("AlreadyInPlaylist", None, "", call'.name)>>
             /\ FieldsUnchanged]_vars

\* A member was added again to a playlist of two videos and was refused.
C11_Witness ==
    /\ call.op = "add_to_playlist"
    /\ out = <<Msg("AlreadyInPlaylist", None, "", call.name)>>
    /\ Len(play_lists[lower(call.name)].list) = 2

\* add_to_playlist under one casing of a name, then remove_from_playlist of
\* the same video under another.
AddThenRemove(s, name1, name2, video_id) ==
    remove_from_playlist(add_to_playlist([s EXCEPT !.out = <<>>], name1, video_id),
                         name2, video_id)

\* C12: whenever a command can be accepted, adding a catalog video that is
\* not flagged to an existing playlist that does not hold it, then removing
\* it, both succeed and leave the playlists, member order included, and all
\* other fields as they were before; a playlist just created, after the add
\* and the remove, exists with its name and no member.
C12_AddRemoveRoundTrip ==
    call = Idle =>
      \A name1 \in Names, name2 \in Names, v \in VideoIds \ DOMAIN flags :
        lower(name1) = lower(name2) =>
          /\ (lower(name1) \in DOMAIN play_lists
                /\ v \notin Range(play_lists[lower(name1)].list)
              => LET r == AddThenRemove(Self, name1, name2, v) IN
                 /\ <<r.out[1].kind, r.out[2].kind>> = <<"Added", "Removed">>
                 /\ Len(r.out) = 2
                 /\ r.play_lists = play_lists
                 /\ lower(name1) \in DOMAIN r.play_lists
                 /\ <<r.status, r.playing_video, r.flags>> = <<status, playing_video, flags>>)
          /\ (lower(name1) \notin DOMAIN play_lists
              => LET r == AddThenRemove(create_playlist(Self, name1), name1, name2, v) IN
                 /\ lower(name1) \in DOMAIN r.play_lists
                 /\ r.play_lists[lower(name1)] = [name |-> name1, list |-> <<>>]
                 /\ \A k \in DOMAIN play_lists : r.play_lists[k] = play_lists[k])

\* A video was removed from a playlist, which exists without members, while
\* the other playlist holds two videos.
C12_Witness ==
    /\ call.op = "remove_from_playlist"
    /\ Kinds(out) = {"Removed"}
    /\ lower(call.name) \in DOMAIN play_lists
    /\ play_lists[lower(call.name)].list = <<>>
    /\ \E k \in DOMAIN play_lists : Len(play_lists[k].list) = 2

\* C13: show_all_playlists lists the display names of all playlists, each
\* once and as given at creation, in ascending order of their lowercase, and
\* reports that no playlist exists when the registry is empty; it changes no
\* field.
C13_ListSortedIgnoringCase ==
    [][Runs("show_all_playlists")
       => /\ FieldsUnchanged
          /\ IF DOMAIN play_lists = {}
             THEN out' = <<Msg("NoPlaylists", None, "", <<>>)>>
             ELSE /\ Len(out') = Cardinality(DOMAIN play_lists) + 1
                  /\ out'[1].kind = "ShowingAllPlaylists"
                  /\ {out'[i].name : i \in 2..Len(out')}
                        = {play_lists[k].name : k \in DOMAIN play_lists}
                  /\ \A i \in 2..Len(out'), j \in 2..Len(out') :
                        i < j => StrLess(lower(out'[i].name), lower(out'[j].name))]_vars

\* The commands that address a playlist by its name.
PlaylistCommands ==
    {"add_to_playlist", "remove_from_playlist", "show_playlist", "clear_playlist",
     "delete_playlist"}

\* C14: clear_playlist of an existing playlist empties its members and keeps
\* the playlist with its display name; delete_playlist of an existing
\* playlist removes that entry and no other. A command addressing a name
\* that has no playlist reports PlaylistNotFound and changes nothing, and a
\* playlist comes into being only by create_playlist, without members.
\* Clear and delete leave every other playlist, the flags and the playback
\* as they were.
C14_ClearAndDelete ==
    [][/\ Runs("clear_playlist") /\ lower(call'.name) \in DOMAIN play_lists
          => /\ out' = <<Msg("Cleared", None, "", call'.name)>>
             /\ DOMAIN play_lists' = DOMAIN play_lists
             /\ play_lists'[lower(call'.name)] =
                  [name |-> play_lists[lower(call'.name)].name, list |-> <<>>]
             /\ \A k \in DOMAIN play_lists \ {lower(call'.name)} :
                  play_lists'[k] = play_lists[k]
             /\ UNCHANGED <<status, playing_video, flags>>
       /\ Runs("delete_playlist") /\ lower(call'.name) \in DOMAIN play_lists
          => /\ out' = <<Msg("Deleted", None, "", call'.name)>>
             /\ DOMAIN play_lists' = DOMAIN play_lists \ {lower(call'.name)}
             /\ \A k \in DOMAIN play_lists' : play_lists'[k] = play_lists[k]
             /\ UNCHANGED <<status, playing_video, flags>>
       /\ RunsCommand /\ call'.op \in PlaylistCommands
            /\ lower(call'.name) \notin DOMAIN play_lists
          => /\ out' = <<Msg("PlaylistNotFound", None, "", call'.name)>>
             /\ FieldsUnchanged
       /\ \A k \in DOMAIN play_lists' \ DOMAIN play_lists :
             /\ Runs("create_playlist")
             /\ k = lower(call'.name)
             /\ play_lists'[k].list = <<>>]_vars

\* One of two playlists was deleted; the other keeps its two members, with a
\* video playing and a video flagged.
C14_Witness ==
    /\ call.op = "delete_playlist"
    /\ Kinds(out) = {"Deleted"}
    /\ lower(call.name) \notin DOMAIN play_lists
    /\ \E k \in DOMAIN play_lists : Len(play_lists[k].list) = 2
    /\ status = "PLAYING"
    /\ flags # <<>>

\* The videos a search is to list: the catalog videos that are not flagged
\* and match the term in the mode.
Expected(search_term, mode) ==
    {v \in VideoIds :
        /\ v \notin DOMAIN flags
        /\ IF mode = "all"
           THEN Contains(lower(search_term), lower(str(v)))
           ELSE \E tag \in Range(VideoOf(v).tags) : lower(tag) = lower(search_term)}

\* The result lines among the lines printed.
ResultLines(lines) == SelectSeq(lines, LAMBDA m : m.kind = "Result")

\* The mode of a search command.
ModeOf(op) == IF op = "search_videos" THEN "all" ELSE "tag"

C16_FlagNotOverwritten ==
    /\ [](DOMAIN flags \subseteq VideoIds)
    /\ [][/\ Runs("flag_video") /\ call'.video_id \in DOMAIN flags
             => /\ out' = <<Msg("AlreadyFlagged", None, "", <<>>)>>
                /\ FieldsUnchanged
          /\ \A id \in DOMAIN flags \cap DOMAIN flags' : flags'[id] = flags[id]
          /\ \A id \in DOMAIN flags' \ DOMAIN flags :
                Runs("flag_video") /\ call'.video_id = id /\ flags'[id] = call'.reason
          /\ Runs("show_all_videos")
             => /\ Len(out') = Len(video_library) + 1
                /\ \A i \in 2..Len(out') :
                     IF out'[i].video \in DOMAIN flags
                     THEN out'[i].kind = "VideoFlagged"
                          /\ out'[i].reason = flags[out'[i].video]
                     ELSE out'[i].kind = "Video"]_vars

\* A video flagged without a reason was flagged again with the reason
\* "spam": the call was refused and the first reason stands.
C16_Witness ==
    /\ call.op = "flag_video"
    /\ call.reason = "spam"
    /\ out = <<Msg("AlreadyFlagged", None, "", <<>>)>>
    /\ flags[call.video_id] = "Not supplied"

\* C17: add_to_playlist reports the first that holds of: the playlist does
\* not exist, the video does not exist, the video is a member already, the
\* video is flagged (with its reason), and then changes nothing; when none
\* holds it makes the video the last member and changes nothing else.
C17_AddPrecedence ==
    [][Runs("add_to_playlist")
       => LET key == lower(call'.name)
              id == call'.video_id
          IN IF key \notin DOMAIN play_lists
             THEN out' = <<Msg("PlaylistNotFound", None, "", call'.name)>> /\ FieldsUnchanged
             ELSE IF id \notin VideoIds
             THEN out' = <<Msg("VideoNotFound", None, "", call'.name)>> /\ FieldsUnchanged
             ELSE IF id \in Range(play_lists[key].list)
             THEN out' = <<Msg("AlreadyInPlaylist", None, "", call'.name)>> /\ FieldsUnchanged
             ELSE IF id \in DOMAIN flags
             THEN out' = <<Msg("Flagged", None, flags[id], call'.name)>> /\ FieldsUnchanged
             ELSE /\ out' = <<Msg("Added", id, "", call'.name)>>
                  /\ DOMAIN play_lists' = DOMAIN play_lists
                  /\ play_lists'[key].list = Append(play_lists[key].list, id)
                  /\ play_lists'[key].list[Len(play_lists'[key].list)] = id
                  /\ play_lists'[key].name = play_lists[key].name
                  /\ \A k \in DOMAIN play_lists \ {key} : play_lists'[k] = play_lists[k]
                  /\ UNCHANGED <<status, playing_video, flags>>]_vars

\* A member that was flagged since was added again: the call reports that it
\* is a member already, not that it is flagged.
C17_Witness ==
    /\ call.op = "add_to_playlist"
    /\ out = <<Msg("AlreadyInPlaylist", None, "", call.name)>>
    /\ call.video_id \in DOMAIN flags

\* The controller's fields after the step, with nothing printed.
SelfAfter ==
    [status |-> status', playing_video |-> playing_video',
     play_lists |-> play_lists', flags |-> flags', out |-> <<>>]

\* C18: remove_from_playlist reports the first that holds of: the playlist
\* does not exist, the video does not exist, the video is no member, and then
\* changes nothing; otherwise the members after it are the members before
\* without that video, in the same order, nothing else changes, and adding
\* the video again makes it the last member.
C18_RemoveKeepsOrder ==
    [][Runs("remove_from_playlist")
       => LET key == lower(call'.name)
              id == call'.video_id
          IN IF key \notin DOMAIN play_lists
             THEN out' = <<Msg("PlaylistNotFound", None, "", call'.name)>> /\ FieldsUnchanged
             ELSE IF id \notin VideoIds
             THEN out' = <<Msg("VideoNotFound", None, "", call'.name)>> /\ FieldsUnchanged
             ELSE IF id \notin Range(play_lists[key].list)
             THEN out' = <<Msg("NotInPlaylist", None, "", call'.name)>> /\ FieldsUnchanged
             ELSE LET old == play_lists[key].list
                      new == play_lists'[key].list
                      p == CHOOSE i \in 1..Len(old) : old[i] = id
                  IN /\ out' = <<Msg("Removed", id, "", call'.name)>>
                     /\ DOMAIN play_lists' = DOMAIN play_lists
                     /\ Len(new) = Len(old) - 1
                     /\ \A i \in 1..(p - 1) : new[i] = old[i]
                     /\ \A i \in p..Len(new) : new[i] = old[i + 1]
                     /\ play_lists'[key].name = play_lists[key].name
                     /\ \A k \in DOMAIN play_lists \ {key} : play_lists'[k] = play_lists[k]
                     /\ UNCHANGED <<status, playing_video, flags>>
                     /\ (id \notin DOMAIN flags
                           => add_to_playlist(SelfAfter, call'.name, id).play_lists[key].list
                                = Append(new, id))]_vars

\* A video was removed from a playlist that had three members: two remain.
C18_Witness ==
    /\ call.op = "remove_from_playlist"
    /\ Kinds(out) = {"Removed"}
    /\ lower(call.name) \in DOMAIN play_lists
    /\ Len(play_lists[lower(call.name)].list) = 2
    /\ Cardinality(VideoIds) = 3

\* C19: after a search has listed its results, a line that is the decimal
\* text of an integer k from 1 to the number of results plays the k-th listed
\* video; any other line selects nothing: no field changes and no error is
\* raised.
C19_SelectionPlaysOrIgnores ==
    [][((Runs("search_videos") \/ Runs("search_videos_tag"))
          /\ "PromptNote" \in Kinds(out'))
       => LET results == SearchResults(Self, call'.name, ModeOf(call'.op))
              choose == call'.input
          IN IF \E k \in 1..Len(results) : choose = DecimalText(k)
             THEN LET k == CHOOSE k \in 1..Len(results) : choose = DecimalText(k)
                  IN /\ status' = "PLAYING"
                     /\ playing_video' = results[k]
                     /\ "Playing" \in Kinds(out')
                     /\ UNCHANGED <<play_lists, flags>>
             ELSE /\ FieldsUnchanged
                  /\ "ValueError" \notin Kinds(out')]_vars

\* C20: flag_video and allow_video leave every playlist as it is, so a
\* flagged member keeps its position; show_playlist prints the members in
\* their order, a flagged one with its reason, and changes nothing;
\* remove_from_playlist removes a flagged member; add_to_playlist adds a
\* flagged video to no playlist, and adds it again once it is not flagged.
C20_FlagsLeavePlaylists ==
    /\ [][(Runs("flag_video") \/ Runs("allow_video")) => play_lists' = play_lists]_vars
    /\ [][(Runs("show_playlist") /\ lower(call'.name) \in DOMAIN play_lists)
          => LET list == play_lists[lower(call'.name)].list IN
             /\ FieldsUnchanged
             /\ Len(out') >= Len(list) + 1
             /\ \A i \in 1..Len(list) :
                  out'[i + 1] = IF list[i] \in DOMAIN flags
                                THEN Msg("VideoFlagged", list[i], flags[list[i]], <<>>)
                                ELSE Msg("Video", list[i], "", <<>>)]_vars
    /\ [][(/\ Runs("remove_from_playlist")
           /\ lower(call'.name) \in DOMAIN play_lists
           /\ call'.video_id \in DOMAIN flags
           /\ call'.video_id \in Range(play_lists[lower(call'.name)].list))
          => /\ Kinds(out') = {"Removed"}
             /\ call'.video_id \notin Range(play_lists'[lower(call'.name)].list)
             /\ flags' = flags]_vars
    /\ [][(/\ Runs("add_to_playlist")
           /\ lower(call'.name) \in DOMAIN play_lists
           /\ call'.video_id \in VideoIds
           /\ call'.video_id \notin Range(play_lists[lower(call'.name)].list))
          => IF call'.video_id \in DOMAIN flags
             THEN Kinds(out') = {"Flagged"} /\ FieldsUnchanged
             ELSE /\ Kinds(out') = {"Added"}
                  /\ play_lists'[lower(call'.name)].list
                       = Append(play_lists[lower(call'.name)].list, call'.video_id)]_vars

\* A video that is the second member of a playlist has just been flagged.
C20_Witness ==
    /\ call.op = "flag_video"
    /\ Kinds(out) = {"FlaggedOk"}
    /\ \E k \in DOMAIN play_lists :
         /\ Len(play_lists[k].list) = 2
         /\ play_lists[k].list[2] = call.video_id

====
